---- MODULE Spec2Model ----
(***************************************************************************)
(* GrainCraft: the stock ledger (advanced-features/smart_inventory.py) and *)
(* the order lifecycle (backend/server.py) as one state machine.           *)
(*                                                                         *)
(* Quantities (kg) are counted in whole units, so that stock arithmetic is *)
(* exact; the binary rounding of the program's floats is not modelled.     *)
(* Every "await" on the database is a point where other tasks may run, so  *)
(* a method that reads and later writes is modelled as one action per      *)
(* database call.                                                          *)
(***************************************************************************)
EXTENDS Integers, Sequences, FiniteSets, TLC

VARIABLES
    inventory,      \* db.inventory: the batches, in insertion order
    grains,         \* db.grains: grain id -> stock_kg of the catalog record
    wk,             \* ledger callers: the running call of each and its locals
    ret,            \* ledger callers: what the last finished call returned
    now,            \* the clock (datetime.utcnow), in units of 5 minutes
    orders,         \* db.orders: the orders, in insertion order
    history,        \* db.order_status_history, in insertion order
    tasks,          \* the process_order_status_update tasks verify_payment created
    sweep,          \* auto_update_order_status: where its loop stands
    resp,           \* the status code of the last answer, 0 before the first
    redis_available,\* whether the Redis client exists (set once, at start)
    redis,          \* the Redis keys: key -> <<>> (absent) or <<value>>
    user_connections, \* ConnectionManager.user_connections: user -> websocket, 0 if none
    sent,           \* the texts sent on websockets, in the order of sending
    request_counts, \* rate limiter: client_ip -> the request times it holds
    current_time,   \* time.time(), in seconds
    requests,       \* the requests the middleware has seen, and whether each
                    \* was passed on to call_next
    rd,             \* cached reads: the running get_grains / get_my_orders of
                    \* each reader and what it loaded from the database
    got,            \* cached reads: the body of each reader's last answer
    active_connections, \* ConnectionManager.active_connections, in list order
    sockets,        \* each websocket: whether it was accepted, is open or was
                    \* closed by its client, and the user it was connected for
    bc,             \* ConnectionManager.broadcast: where its loop stands
    scan,           \* check_stock_levels: where it stands and what it found
    alerts          \* SmartInventoryManager.alerts, in order of creation

ledgerVars == <<inventory, grains, wk, ret>>
orderVars == <<orders, history, tasks, sweep, resp, redis_available, redis,
               user_connections, sent>>
gateVars == <<request_counts, current_time, requests>>
readVars == <<rd, got>>
chanVars == <<active_connections, sockets, bc>>
scanVars == <<scan, alerts>>
vars == <<inventory, grains, wk, ret, now, orders, history, tasks, sweep, resp,
          redis_available, redis, user_connections, sent,
          request_counts, current_time, requests, rd, got,
          active_connections, sockets, bc, scan, alerts>>

(***************************************************************************)
(* Bounds of the model                                                     *)
(***************************************************************************)
\* largest stock_kg a catalog grain starts with
MaxStock == 2
\* largest quantity one call asks for
MaxQty == 2
\* stock figures are kept within -StockCap .. StockCap
StockCap == 2
\* number of batches db.inventory may hold
MaxBatches == 2
\* the clock stops at MaxTime
MaxTime == 2
\* number of orders db.orders may hold
MaxOrders == 1
\* number of line items of one order
MaxItems == 1
\* number of rows db.order_status_history may hold
MaxHistory == 2
MaxFound == 2
MaxSockets == 2
MaxBroadcasts == 1
MaxAlerts == 2
\* number of process_order_status_update tasks not yet finished
MaxTasks == 1
\* requests one client may have in one window (100 in the program)
RATE_LIMIT_REQUESTS == 2
\* length of the window in seconds (60 in the program)
RATE_LIMIT_WINDOW == 2
\* time.time() stops at MaxClock
MaxClock == 4
\* number of requests the middleware sees
MaxRequests == 4

Grains == {"wheat"}
Suppliers == {"SUP_1"}
\* the callers of the ledger (request handlers, tasks)
Workers == {"w1", "w2"}
Quantities == 1..MaxQty

\* minimum_threshold of every batch the ledger creates
MINIMUM_THRESHOLD == 10
\* optimal_stock of the batch created for an existing grain
INITIAL_OPTIMAL_STOCK == 100

Min(S) == CHOOSE x \in S : \A y \in S : x <= y
Max(a, b) == IF a >= b THEN a ELSE b

(***************************************************************************)
(* db.inventory                                                            *)
(***************************************************************************)
\* the document initialize_inventory_items inserts for a catalog grain
initial_inventory_item(g, stock_kg) ==
    [grain_id |-> g,
     batch_id |-> <<g, "date", 0>>,
     current_stock |-> stock_kg,
     reserved_stock |-> 0,
     available_stock |-> stock_kg,
     minimum_threshold |-> MINIMUM_THRESHOLD,
     optimal_stock |-> INITIAL_OPTIMAL_STOCK,
     supplier_id |-> "DEFAULT_SUPPLIER"]

\* the document add_stock inserts: the batch id is the grain and the clock
\* (initialize_inventory_items stamps the date only, add_stock date and time,
\* so that the two formats never give the same id)
new_inventory_item(g, q, supplier, t) ==
    [grain_id |-> g,
     batch_id |-> <<g, "datetime", t>>,
     current_stock |-> q,
     reserved_stock |-> 0,
     available_stock |-> q,
     minimum_threshold |-> MINIMUM_THRESHOLD,
     optimal_stock |-> q * 2,
     supplier_id |-> supplier]

\* find_one({"grain_id": g}): the position of the first batch of g, 0 if none
find_one(inv, g) ==
    LET S == {i \in 1..Len(inv) : inv[i].grain_id = g}
    IN  IF S = {} THEN 0 ELSE Min(S)

\* update_one({"grain_id": g}, {"$inc": ...}): one atomic change of the
\* first batch of g, relative to what the database holds at that moment
update_one_inc(inv, g, d_reserved, d_available) ==
    LET i == find_one(inv, g)
    IN  IF i = 0 THEN inv
        ELSE [inv EXCEPT ![i].reserved_stock = @ + d_reserved,
                         ![i].available_stock = @ + d_available]

\* update_one({"grain_id": g}, {"$set": ...}) of consume_stock
update_one_set(inv, g, new_current_stock, new_reserved_stock) ==
    LET i == find_one(inv, g)
    IN  IF i = 0 THEN inv
        ELSE [inv EXCEPT ![i].current_stock = new_current_stock,
                         ![i].reserved_stock = new_reserved_stock]

\* the unique index on batch_id: insert_one raises on a duplicate
batch_id_taken(inv, id) == \E i \in 1..Len(inv) : inv[i].batch_id = id

(***************************************************************************)
(* reserve_stock, release_stock, consume_stock: what each writes           *)
(***************************************************************************)
\* a reserve_stock that admits whenever anything is available
reserve_admits_any_stock(item, q) == item.available_stock > 0

\* reserve_stock's test on the document it read
reserve_admits(item, q) == item.available_stock >= q

\* reserve_stock's update
reserve_update(inv, g, q) == update_one_inc(inv, g, q, -q)

\* a release_stock that forgets to hand the quantity back to available_stock
release_update_reserved_only(inv, g, q) == update_one_inc(inv, g, -q, 0)

\* release_stock's update
release_update(inv, g, q) == update_one_inc(inv, g, -q, q)

\* consume_stock's new figures, from the document it read
consume_new_current_stock(item, q) == item.current_stock - q
consume_new_reserved_stock(item, q) == Max(0, item.reserved_stock - q)

(***************************************************************************)
(* The callers of the ledger                                               *)
(***************************************************************************)
Idle == [pc |-> "idle", grain_id |-> "wheat", quantity |-> 0,
         new_current_stock |-> 0, new_reserved_stock |-> 0,
         new_total_stock |-> 0]

\* reserve_stock returns a bool; the other three methods return nothing
Returns == {"none", "True", "False", "error logged"}

InRange(x) == -StockCap <= x /\ x <= StockCap

\* reserve_stock up to the update: find_one, "if not inventory_item" and the
\* test of available_stock; a refused call returns False here
ReserveFind(p, g, q) ==
    /\ wk[p].pc = "idle"
    /\ LET i == find_one(inventory, g)
       IN  IF i # 0 /\ reserve_admits(inventory[i], q)
           THEN /\ wk' = [wk EXCEPT ![p] = [Idle EXCEPT !.pc = "reserve_update",
                                                        !.grain_id = g,
                                                        !.quantity = q]]
                /\ UNCHANGED ret
           ELSE /\ ret' = [ret EXCEPT ![p] = "False"]
                /\ UNCHANGED wk
    /\ UNCHANGED <<inventory, grains, now, orderVars,
                   gateVars, readVars, chanVars, scanVars>>

\* reserve_stock's update_one and "return True"
ReserveUpdate(p) ==
    /\ wk[p].pc = "reserve_update"
    /\ inventory' = reserve_update(inventory, wk[p].grain_id, wk[p].quantity)
    /\ \A i \in 1..Len(inventory') : InRange(inventory'[i].available_stock)
                                     /\ InRange(inventory'[i].reserved_stock)
    /\ ret' = [ret EXCEPT ![p] = "True"]
    /\ wk' = [wk EXCEPT ![p] = Idle]
    /\ UNCHANGED <<grains, now, orderVars,
                   gateVars, readVars, chanVars, scanVars>>

\* release_stock: one update_one, whatever the batch holds
ReleaseStock(p, g, q) ==
    /\ wk[p].pc = "idle"
    /\ inventory' = release_update(inventory, g, q)
    /\ \A i \in 1..Len(inventory') : InRange(inventory'[i].available_stock)
                                     /\ InRange(inventory'[i].reserved_stock)
    /\ UNCHANGED <<grains, wk, ret, now, orderVars,
                   gateVars, readVars, chanVars, scanVars>>

\* consume_stock up to the first update: find_one and the new figures
ConsumeFind(p, g, q) ==
    /\ wk[p].pc = "idle"
    /\ LET i == find_one(inventory, g)
       IN  IF i # 0
           THEN /\ wk' = [wk EXCEPT ![p] =
                            [Idle EXCEPT !.pc = "consume_update",
                                         !.grain_id = g,
                                         !.new_current_stock =
                                            consume_new_current_stock(inventory[i], q),
                                         !.new_reserved_stock =
                                            consume_new_reserved_stock(inventory[i], q)]]
                /\ UNCHANGED ret
           ELSE UNCHANGED <<wk, ret>>
    /\ UNCHANGED <<inventory, grains, now, orderVars,
                   gateVars, readVars, chanVars, scanVars>>

\* consume_stock's update_one on db.inventory
ConsumeUpdate(p) ==
    /\ wk[p].pc = "consume_update"
    /\ InRange(wk[p].new_current_stock)
    /\ inventory' = update_one_set(inventory, wk[p].grain_id,
                                   wk[p].new_current_stock, wk[p].new_reserved_stock)
    /\ wk' = [wk EXCEPT ![p].pc = "consume_grains"]
    /\ UNCHANGED <<grains, ret, now, orderVars,
                   gateVars, readVars, chanVars, scanVars>>

\* consume_stock's update_one on db.grains
ConsumeGrains(p) ==
    /\ wk[p].pc = "consume_grains"
    /\ grains' = [grains EXCEPT ![wk[p].grain_id] = wk[p].new_current_stock]
    /\ wk' = [wk EXCEPT ![p] = Idle]
    /\ UNCHANGED <<inventory, ret, now, orderVars,
                   gateVars, readVars, chanVars, scanVars>>

\* add_stock up to the read of db.grains: insert_one of the new batch; a
\* duplicate batch_id raises, and the except clause logs the error and ends
\* the call
AddInsert(p, g, q, supplier) ==
    /\ wk[p].pc = "idle"
    /\ LET item == new_inventory_item(g, q, supplier, now)
       IN  IF batch_id_taken(inventory, item.batch_id)
           THEN /\ ret' = [ret EXCEPT ![p] = "error logged"]
                /\ UNCHANGED <<inventory, wk>>
           ELSE /\ Len(inventory) < MaxBatches
                /\ inventory' = Append(inventory, item)
                /\ wk' = [wk EXCEPT ![p] = [Idle EXCEPT !.pc = "add_find",
                                                        !.grain_id = g,
                                                        !.quantity = q]]
                /\ UNCHANGED ret
    /\ UNCHANGED <<grains, now, orderVars,
                   gateVars, readVars, chanVars, scanVars>>

\* add_stock's find_one on db.grains: new_total_stock from what it read
AddFind(p) ==
    /\ wk[p].pc = "add_find"
    /\ wk' = [wk EXCEPT ![p] = [Idle EXCEPT !.pc = "add_update",
                                            !.grain_id = wk[p].grain_id,
                                            !.new_total_stock =
                                               grains[wk[p].grain_id] + wk[p].quantity]]
    /\ UNCHANGED <<inventory, grains, ret, now, orderVars,
                   gateVars, readVars, chanVars, scanVars>>

\* add_stock's update_one on db.grains
AddUpdate(p) ==
    /\ wk[p].pc = "add_update"
    /\ InRange(wk[p].new_total_stock)
    /\ grains' = [grains EXCEPT ![wk[p].grain_id] = wk[p].new_total_stock]
    /\ wk' = [wk EXCEPT ![p] = Idle]
    /\ UNCHANGED <<inventory, ret, now, orderVars,
                   gateVars, readVars, chanVars, scanVars>>

\* time passes
Tick ==
    /\ now < MaxTime
    /\ now' = now + 1
    /\ UNCHANGED <<ledgerVars, orderVars,
                   gateVars, readVars, chanVars, scanVars>>

(***************************************************************************)
(* The server: db.orders, db.order_status_history, Redis, websockets       *)
(***************************************************************************)
Customers == {"c1", "c2"}
\* the callers of update_order_status: a user id and its role
Users == {"admin", "c1"}
Role(user) == IF user = "admin" THEN "admin" ELSE "customer"
\* the roles update_order_status lets through
StaffRoles == {"grinding_store", "admin", "delivery_boy"}
PaymentIds == {"pay_1"}

Statuses == {"pending", "confirmed", "grinding", "packing", "out_for_delivery",
             "delivered", "cancelled"}

\* auto_update_order_status: timedelta(minutes=5), one unit of the clock.
\* Events happen at whole units; the sleep(60) between two sweeps is shorter
\* than a unit, so a sweep may start at any time.
DWELL == 1

orders_key(c) == <<"orders", c>>
RedisKeys == {<<"grains", "all">>} \cup {orders_key(c) : c \in Customers}

LineItems == [grain_id : Grains, quantity : Quantities]
ItemLists == UNION {[1..n -> LineItems] : n \in 1..MaxItems}

\* Order(...) as create_order builds it: the model's defaults for status and
\* payment_status; the uuid and Razorpay's order id are the order's number
new_order(id, customer, items, t) ==
    [id |-> id,
     customer_id |-> customer,
     items |-> items,
     status |-> "pending",
     payment_status |-> "pending",
     razorpay_order_id |-> id,
     razorpay_payment_id |-> "none",
     updated_at |-> t]

\* db.orders.find_one({"id": id}): position of the order, 0 if none
find_order(ords, id) ==
    LET S == {i \in 1..Len(ords) : ords[i].id = id}
    IN  IF S = {} THEN 0 ELSE Min(S)

\* db.orders.find_one({"razorpay_order_id": rid})
find_order_by_razorpay(ords, rid) ==
    LET S == {i \in 1..Len(ords) : ords[i].razorpay_order_id = rid}
    IN  IF S = {} THEN 0 ELSE Min(S)

\* update_one({"id": id}, {"$set": {"status": ..., "updated_at": utcnow()}}):
\* no filter on the status the order has
set_status(ords, id, new_status, t) ==
    LET i == find_order(ords, id)
    IN  IF i = 0 THEN ords
        ELSE [ords EXCEPT ![i].status = new_status, ![i].updated_at = t]

\* verify_payment's update_one: no filter on status or payment_status
set_paid(ords, rid, payment_id, t) ==
    LET i == find_order_by_razorpay(ords, rid)
    IN  IF i = 0 THEN ords
        ELSE [ords EXCEPT ![i].payment_status = "paid",
                          ![i].razorpay_payment_id = payment_id,
                          ![i].status = "confirmed",
                          ![i].updated_at = t]

\* a row of db.order_status_history (its notes and timestamp are left out)
history_row(order_id, status, updated_by) ==
    [order_id |-> order_id, status |-> status, updated_by |-> updated_by]

\* redis_client.delete(key)
redis_delete(r, key) == [r EXCEPT ![key] = <<>>]

\* a manager that writes the text whether or not the user is registered
send_notification_unregistered(uc, log, user, message, notification_type) ==
    Append(log, [ws |-> uc[user], type |-> notification_type, message |-> message])

\* send_notification / ConnectionManager.send_personal_message: a text on the
\* user's websocket if one is registered, nothing otherwise
send_notification(uc, log, user, message, notification_type) ==
    IF uc[user] # 0
    THEN Append(log, [ws |-> uc[user], type |-> notification_type,
                      message |-> message])
    ELSE log

\* a verify_payment that consumes the order's line items from the ledger
verify_payment_inventory_consuming(inv, order) ==
    LET g == order.items[1].grain_id
        i == find_one(inv, g)
    IN  IF i = 0 THEN inv
        ELSE update_one_set(inv, g,
                            consume_new_current_stock(inv[i], order.items[1].quantity),
                            consume_new_reserved_stock(inv[i], order.items[1].quantity))

\* what verify_payment writes to db.inventory for the order it confirmed:
\* nothing, the handler calls no method of the ledger
verify_payment_inventory(inv, order) == inv

\* what create_order writes to db.inventory for the order it inserted:
\* nothing, the handler calls no method of the ledger
create_order_inventory(inv, order) == inv

\* the rows the process_order_status_update calls under way, or scheduled by
\* verify_payment, still have to insert
InFlight == Len(tasks) + (IF sweep.pc = "finish" THEN 1 ELSE 0)

HistoryHasRoom == Len(history) + InFlight < MaxHistory

\* POST /orders. razorpay_ok: Razorpay's order.create answered; if it raised,
\* the except clause answers 500 before anything is written. Without a Redis
\* client redis_client.delete raises after the insert, and the answer is 500.
CreateOrder(customer, items, razorpay_ok) ==
    /\ Len(orders) < MaxOrders
    /\ IF ~razorpay_ok
       THEN /\ resp' = 500
            /\ UNCHANGED <<orders, inventory, redis, sent>>
       ELSE LET order == new_order(Len(orders) + 1, customer, items, now)
            IN  /\ orders' = Append(orders, order)
                /\ inventory' = create_order_inventory(inventory, order)
                /\ IF redis_available
                   THEN /\ redis' = redis_delete(redis, orders_key(customer))
                        /\ sent' = send_notification(user_connections, sent, customer,
                                      "Order created successfully! Proceed with payment.",
                                      "order_created")
                        /\ resp' = 200
                   ELSE /\ resp' = 500
                        /\ UNCHANGED <<redis, sent>>
    /\ UNCHANGED <<grains, wk, ret, now, history, tasks, sweep, redis_available,
                   user_connections,
                   gateVars, readVars, chanVars, scanVars>>

\* POST /orders/verify-payment. signature_ok: the HMAC matched; the
\* HTTPException(400) of a mismatch is raised inside the try block, whose
\* "except Exception" answers 500. modified_count > 0 whenever an order
\* matched (updated_at is rewritten). Without a Redis client
\* redis_client.delete raises after the update: no notification, no task, 500.
VerifyPayment(rid, signature_ok, payment_id) ==
    /\ IF ~signature_ok
       THEN /\ resp' = 500
            /\ UNCHANGED <<orders, inventory, redis, sent, tasks>>
       ELSE LET i == find_order_by_razorpay(orders, rid)
            IN  IF i = 0
                THEN /\ resp' = 200
                     /\ UNCHANGED <<orders, inventory, redis, sent, tasks>>
                ELSE /\ orders' = set_paid(orders, rid, payment_id, now)
                     /\ inventory' = verify_payment_inventory(inventory, orders[i])
                     /\ IF redis_available
                        THEN /\ Len(tasks) < MaxTasks
                             /\ HistoryHasRoom
                             /\ redis' = redis_delete(redis, orders_key(orders[i].customer_id))
                             /\ sent' = send_notification(user_connections, sent,
                                           orders[i].customer_id,
                                           "Payment successful! Your order has been confirmed.",
                                           "payment_success")
                             /\ tasks' = Append(tasks, [order_id |-> orders[i].id,
                                                        new_status |-> "grinding",
                                                        pc |-> "update"])
                             /\ resp' = 200
                        ELSE /\ resp' = 500
                             /\ UNCHANGED <<redis, sent, tasks>>
    /\ UNCHANGED <<grains, wk, ret, now, history, sweep, redis_available,
                   user_connections,
                   gateVars, readVars, chanVars, scanVars>>

\* PUT /orders/{order_id}/status: the role test, then the update, the history
\* row (also when no order matched) and the cache key of the order's customer
UpdateOrderStatus(user, order_id, new_status) ==
    /\ IF Role(user) \notin StaffRoles
       THEN /\ resp' = 403
            /\ UNCHANGED <<orders, history, redis>>
       ELSE /\ HistoryHasRoom
            /\ orders' = set_status(orders, order_id, new_status, now)
            /\ history' = Append(history, history_row(order_id, new_status, user))
            /\ LET i == find_order(orders, order_id)
               IN  redis' = IF i # 0 /\ redis_available
                            THEN redis_delete(redis, orders_key(orders[i].customer_id))
                            ELSE redis
            /\ resp' = 200
    /\ UNCHANGED <<ledgerVars, now, tasks, sweep, redis_available,
                   user_connections, sent,
                   gateVars, readVars, chanVars, scanVars>>

\* process_order_status_update after its update: the history row, then, if
\* the order is found, the notification and the cache key; without a Redis
\* client the delete raises and the except clause logs it
status_update_history(h, order_id, new_status) ==
    Append(h, history_row(order_id, new_status, "system"))

status_update_sent(ords, uc, log, order_id, new_status) ==
    LET i == find_order(ords, order_id)
    IN  IF i = 0 THEN log
        ELSE send_notification(uc, log, ords[i].customer_id, new_status, "order_update")

status_update_redis(ords, r, available, order_id) ==
    LET i == find_order(ords, order_id)
    IN  IF i = 0 \/ ~available THEN r
        ELSE redis_delete(r, orders_key(ords[i].customer_id))

\* the task verify_payment created: its update_one
TaskUpdate(k) ==
    /\ tasks[k].pc = "update"
    /\ orders' = set_status(orders, tasks[k].order_id, tasks[k].new_status, now)
    /\ tasks' = [tasks EXCEPT ![k].pc = "finish"]
    /\ UNCHANGED <<ledgerVars, now, history, sweep, resp, redis_available, redis,
                   user_connections, sent,
                   gateVars, readVars, chanVars, scanVars>>

\* the task verify_payment created: the rest of it
TaskFinish(k) ==
    /\ tasks[k].pc = "finish"
    /\ history' = status_update_history(history, tasks[k].order_id, tasks[k].new_status)
    /\ sent' = status_update_sent(orders, user_connections, sent,
                                  tasks[k].order_id, tasks[k].new_status)
    /\ redis' = status_update_redis(orders, redis, redis_available, tasks[k].order_id)
    /\ tasks' = [j \in 1..(Len(tasks) - 1) |-> IF j < k THEN tasks[j] ELSE tasks[j + 1]]
    /\ UNCHANGED <<ledgerVars, now, orders, sweep, resp, redis_available,
                   user_connections,
                   gateVars, readVars, chanVars, scanVars>>

\* a sweep that takes every grinding or packing order, whatever its age
sweep_query_any_age(ords, t) ==
    SelectSeq(ords, LAMBDA o : o.status \in {"grinding", "packing"})

\* auto_update_order_status: the orders a sweep finds
sweep_query(ords, t) ==
    SelectSeq(ords, LAMBDA o : o.status \in {"grinding", "packing"}
                               /\ o.updated_at < t - DWELL)

\* auto_update_order_status: the status after the one the sweep read
auto_new_status(status) ==
    IF status = "grinding" THEN "packing"
    ELSE IF status = "packing" THEN "out_for_delivery"
    ELSE "none"

\* Order(**order): the validation of a record read from db.orders. A record
\* whose customer_id is missing ("none") raises ValidationError.
Order_validates(o) == o.customer_id \in Customers

\* a sweep starts: the find; with nothing found it sleeps again
SweepFind ==
    /\ sweep.pc = "find"
    /\ LET found == sweep_query(orders, now)
       IN  sweep' = IF found = <<>>
                    THEN [pc |-> "find", queue |-> <<>>]
                    ELSE [pc |-> "update",
                          queue |-> [j \in 1..Len(found) |->
                                       [id |-> found[j].id, status |-> found[j].status,
                                        customer_id |-> found[j].customer_id,
                                        updated_at |-> found[j].updated_at]]]
    /\ UNCHANGED <<ledgerVars, now, orders, history, tasks, resp, redis_available,
                   redis, user_connections, sent,
                   gateVars, readVars, chanVars, scanVars>>

\* the sweep's call of process_order_status_update for the next order it
\* found: the update_one, with the status computed from what the find read
SweepUpdate ==
    /\ sweep.pc = "update"
    /\ Order_validates(Head(sweep.queue))
    /\ HistoryHasRoom
    /\ orders' = set_status(orders, Head(sweep.queue).id,
                            auto_new_status(Head(sweep.queue).status), now)
    /\ sweep' = [sweep EXCEPT !.pc = "finish"]
    /\ UNCHANGED <<ledgerVars, now, history, tasks, resp, redis_available, redis,
                   user_connections, sent,
                   gateVars, readVars, chanVars, scanVars>>

\* the rest of that call; after the last order the sweep sleeps
SweepFinish ==
    /\ sweep.pc = "finish"
    /\ LET id == Head(sweep.queue).id
           new_status == auto_new_status(Head(sweep.queue).status)
       IN  /\ history' = status_update_history(history, id, new_status)
           /\ sent' = status_update_sent(orders, user_connections, sent, id, new_status)
           /\ redis' = status_update_redis(orders, redis, redis_available, id)
    /\ sweep' = IF Len(sweep.queue) = 1
                THEN [pc |-> "find", queue |-> <<>>]
                ELSE [pc |-> "update", queue |-> Tail(sweep.queue)]
    /\ UNCHANGED <<ledgerVars, now, orders, tasks, resp, redis_available,
                   user_connections,
                   gateVars, readVars, chanVars, scanVars>>

\* Order(**order) raises on the next record the sweep found: the except clause
\* of auto_update_order_status logs, sleeps, and the loop starts the next sweep
SweepMalformed ==
    /\ sweep.pc = "update"
    /\ ~Order_validates(Head(sweep.queue))
    /\ sweep' = [pc |-> "find", queue |-> <<>>]
    /\ UNCHANGED <<ledgerVars, now, orders, history, tasks, resp, redis_available,
                   redis, user_connections, sent,
                   gateVars, readVars, chanVars, scanVars>>

\* the update_one of process_order_status_update raises: its own except
\* clause logs and the call returns; the sweep goes on with the next order
SweepStorageError ==
    /\ sweep.pc = "update"
    /\ Order_validates(Head(sweep.queue))
    /\ sweep' = IF Len(sweep.queue) = 1
                THEN [pc |-> "find", queue |-> <<>>]
                ELSE [pc |-> "update", queue |-> Tail(sweep.queue)]
    /\ UNCHANGED <<ledgerVars, now, orders, history, tasks, resp, redis_available,
                   redis, user_connections, sent,
                   gateVars, readVars, chanVars, scanVars>>

(***************************************************************************)
(* The rate limiter: rate_limit_middleware, in front of every handler      *)
(***************************************************************************)
ClientIps == {"ip1", "ip2"}

\* a window that still holds the request made RATE_LIMIT_WINDOW seconds ago
in_window_closed(t, req_time) == t - req_time <= RATE_LIMIT_WINDOW

\* current_time - req_time < RATE_LIMIT_WINDOW
in_window(t, req_time) == t - req_time < RATE_LIMIT_WINDOW

\* "Clean old requests"
clean(counts, t) == SelectSeq(counts, LAMBDA req_time : in_window(t, req_time))

\* a limiter that lets the request at the limit through
rate_limited_above(counts) == Len(counts) > RATE_LIMIT_REQUESTS

\* "Check rate limit"
rate_limited(counts) == Len(counts) >= RATE_LIMIT_REQUESTS

\* a limiter that records the request it answers 429
counts_after_recording(cleaned, t) == Append(cleaned, t)

\* request_counts[client_ip] when the middleware is through: the cleaned list
\* if it answered 429, the cleaned list and the current request otherwise
counts_after(cleaned, t) ==
    IF rate_limited(cleaned) THEN cleaned ELSE Append(cleaned, t)

\* a limiter with one list for all clients
counts_of_shared(counts, client_ip) == counts[CHOOSE ip \in ClientIps : TRUE]

\* request_counts[client_ip]: the list of the client, of no other
counts_of(counts, client_ip) == counts[client_ip]

\* one request of client_ip: 429, or the request is recorded and passed on to
\* call_next. The middleware has no await before call_next.
RateLimitMiddleware(client_ip) ==
    /\ Len(requests) < MaxRequests
    /\ LET cleaned == clean(counts_of(request_counts, client_ip), current_time)
       IN  /\ request_counts' =
                 [request_counts EXCEPT ![client_ip] = counts_after(cleaned, current_time)]
           /\ requests' = Append(requests, [client_ip |-> client_ip,
                                            time |-> current_time,
                                            call_next |-> ~rate_limited(cleaned)])
    /\ UNCHANGED <<ledgerVars, now, orderVars, current_time, readVars, chanVars, scanVars>>

\* a second passes
Advance ==
    /\ current_time < MaxClock
    /\ current_time' = current_time + 1
    /\ UNCHANGED <<ledgerVars, now, orderVars, request_counts, requests, readVars, chanVars, scanVars>>

(***************************************************************************)
(* The cached reads: get_grains and get_my_orders                          *)
(***************************************************************************)
Readers == {"r1"}
NoRead == [pc |-> "idle", key |-> <<"none", "none">>, loaded |-> <<>>]

\* setex(key, 300, value): 300 seconds, one unit of the clock
CACHE_TTL == 1

grains_key == <<"grains", "all">>

\* redis_client.get(key): <<value>>, or <<>> (None) once the key has expired
redis_get(r, key, t) ==
    IF r[key] # <<>> /\ t < r[key][1].expires_at THEN <<r[key][1].value>> ELSE <<>>

\* redis_client.setex(key, ttl, value)
redis_setex(r, key, ttl, value, t) ==
    [r EXCEPT ![key] = <<[value |-> value, expires_at |-> t + ttl]>>]

\* db.grains.find({"available": True}): the catalog records
\* the fields that hold a date: <<"datetime", t>> is a Python datetime,
\* <<"isoformat", t>> the string "2024-01-01T10:00:00" and <<"str", t>> the
\* string "2024-01-01 10:00:00"
DatetimeFields == {"created_at", "updated_at"}

format_datetimes(doc, format) ==
    [f \in DOMAIN doc |-> IF f \in DatetimeFields /\ doc[f][1] = "datetime"
                          THEN <<format, doc[f][2]>>
                          ELSE doc[f]]

\* json.dumps(docs, default=str): the text; a datetime is written as str() of it
json_dumps_default_str(docs) ==
    <<"json", [j \in 1..Len(docs) |-> format_datetimes(docs[j], "str")]>>

\* json.loads(text)
json_loads(text) == text[2]

\* the body FastAPI answers for a returned value: jsonable_encoder writes a
\* datetime as its isoformat()
jsonable_encoder(docs) ==
    [j \in 1..Len(docs) |-> format_datetimes(docs[j], "isoformat")]

\* db.grains.find({"available": True}) and the cleaning loop, which leaves
\* the grain's created_at a datetime
grains_view(gr) ==
    <<[id |-> "wheat", stock_kg |-> gr["wheat"], created_at |-> <<"datetime", 0>>]>>

\* db.orders.find({"customer_id": customer}) and the cleaning loop, which
\* writes every datetime of an order as its isoformat()
orders_view(ords, customer) ==
    LET found == SelectSeq(ords, LAMBDA o : o.customer_id = customer)
    IN  [j \in 1..Len(found) |->
            [found[j] EXCEPT !.updated_at = <<"isoformat", found[j].updated_at>>]]

\* a cached read up to its database query: the answer from Redis if the key
\* is there (no Redis client: no lookup), else the find
cached_read_find(r, key, view) ==
    /\ rd[r].pc = "idle"
    /\ LET cached == IF redis_available THEN redis_get(redis, key, now) ELSE <<>>
       IN  IF cached # <<>>
           THEN /\ got' = [got EXCEPT ![r] = jsonable_encoder(json_loads(cached[1]))]
                /\ UNCHANGED rd
           ELSE /\ rd' = [rd EXCEPT ![r] = [pc |-> "store", key |-> key, loaded |-> view]]
                /\ UNCHANGED got
    /\ UNCHANGED <<ledgerVars, now, orderVars, gateVars, chanVars, scanVars>>

\* a cached read after its database query: the setex and the answer
cached_read_store(r, key) ==
    /\ rd[r].pc = "store"
    /\ rd[r].key = key
    /\ redis' = IF redis_available
                THEN redis_setex(redis, key, CACHE_TTL,
                                 json_dumps_default_str(rd[r].loaded), now)
                ELSE redis
    /\ got' = [got EXCEPT ![r] = jsonable_encoder(rd[r].loaded)]
    /\ rd' = [rd EXCEPT ![r] = NoRead]
    /\ UNCHANGED <<ledgerVars, now, orders, history, tasks, sweep, resp,
                   redis_available, user_connections, sent, gateVars, chanVars, scanVars>>

\* GET /grains
GetGrainsFind(r) == cached_read_find(r, grains_key, grains_view(grains))
GetGrainsStore(r) == cached_read_store(r, grains_key)

\* GET /orders/my-orders of a customer
GetMyOrdersFind(r, customer) ==
    cached_read_find(r, orders_key(customer), orders_view(orders, customer))
GetMyOrdersStore(r, customer) == cached_read_store(r, orders_key(customer))

(***************************************************************************)
(* The ledger, its calls one after the other: a call runs to its end       *)
(* before the next one starts                                              *)
(***************************************************************************)
\* after initialize(): one batch per catalog grain, holding its stock_kg
InitInventory ==
    /\ grains \in [Grains -> 0..MaxStock]
    /\ inventory = <<initial_inventory_item("wheat", grains["wheat"])>>
    /\ wk = [p \in Workers |-> Idle]
    /\ ret = [p \in Workers |-> "none"]
    /\ now = 0

\* after the server's start: no order, no history row, nothing cached, nobody
\* connected, the progressor about to make its first sweep
InitServer ==
    /\ orders = <<>>
    /\ history = <<>>
    /\ tasks = <<>>
    /\ sweep = [pc |-> "find", queue |-> <<>>]
    /\ resp = 0
    /\ redis_available \in BOOLEAN
    /\ redis = [k \in RedisKeys |-> <<>>]
    /\ user_connections = [u \in Customers |-> 0]
    /\ sent = <<>>

(***************************************************************************)
(* The stock scan: check_stock_levels                                      *)
(***************************************************************************)
\* the operand of the scan's $lte: the string "$minimum_threshold" (a find
\* filter takes it as a value, only $expr would read it as a field)
scan_operand == [type |-> "string", value |-> "$minimum_threshold"]

\* {field: {"$lte": operand}} on a field that holds a number: a comparison
\* operator of a find matches only values of the operand's BSON type
bson_lte(number, operand) == operand.type = "number" /\ number <= operand.value

\* db.inventory.find({"available_stock": {"$lte": "$minimum_threshold"}})
low_stock_items(inv) ==
    SelectSeq(inv, LAMBDA item : bson_lte(item.available_stock, scan_operand))

\* the alert check_stock_levels creates for an item it found
stock_alert(item) ==
    [type |-> IF item.available_stock <= 0 THEN "out_of_stock" ELSE "low_stock",
     grain_id |-> item.grain_id,
     batch_id |-> item.batch_id]

\* check_stock_levels: its find
ScanFind ==
    /\ scan.pc = "idle"
    /\ scan' = [pc |-> "alerts", found |-> low_stock_items(inventory)]
    /\ UNCHANGED <<ledgerVars, now, orderVars, gateVars, readVars, chanVars, alerts>>

\* check_stock_levels: create_alert for the next item found, or the end
ScanAlerts ==
    /\ scan.pc = "alerts"
    /\ IF scan.found = <<>>
       THEN /\ scan' = [pc |-> "idle", found |-> <<>>]
            /\ UNCHANGED alerts
       ELSE /\ Len(alerts) < MaxAlerts
            /\ alerts' = Append(alerts, stock_alert(Head(scan.found)))
            /\ scan' = [scan EXCEPT !.found = Tail(scan.found)]
    /\ UNCHANGED <<ledgerVars, now, orderVars, gateVars, readVars, chanVars>>

(***************************************************************************)
(* The websocket registry: ConnectionManager                               *)
(***************************************************************************)
\* the websockets clients open; 0 stands for no websocket
Websockets == 1..MaxSockets

NoBroadcast == [pc |-> "idle", idx |-> 0, message |-> 0]

\* "websocket in self.active_connections"
in_active(active, ws) == \E n \in 1..Len(active) : active[n] = ws

\* self.active_connections.remove(websocket): the first occurrence goes
list_remove(active, ws) ==
    LET n == CHOOSE m \in 1..Len(active) :
                 active[m] = ws /\ \A l \in 1..(m - 1) : active[l] # ws
    IN  [j \in 1..(Len(active) - 1) |-> IF j < n THEN active[j] ELSE active[j + 1]]

\* connect(websocket, user_id): accept, then the list and the dict
Connect(ws, user_id) ==
    /\ sockets[ws].state = "new"
    /\ sockets' = [sockets EXCEPT ![ws] = [state |-> "open", user_id |-> user_id]]
    /\ active_connections' = Append(active_connections, ws)
    /\ user_connections' = [user_connections EXCEPT ![user_id] = ws]
    /\ UNCHANGED <<ledgerVars, now, orders, history, tasks, sweep, resp,
                   redis_available, redis, sent, gateVars, readVars, bc, scanVars>>

\* disconnect(websocket, user_id), called once for a websocket that was
\* connected, with the user it was connected for
Disconnect(ws) ==
    /\ sockets[ws].state \in {"open", "closed"}
    /\ sockets' = [sockets EXCEPT ![ws].state = "gone"]
    /\ active_connections' = IF in_active(active_connections, ws)
                             THEN list_remove(active_connections, ws)
                             ELSE active_connections
    /\ user_connections' = [user_connections EXCEPT ![sockets[ws].user_id] = 0]
    /\ UNCHANGED <<ledgerVars, now, orders, history, tasks, sweep, resp,
                   redis_available, redis, sent, gateVars, readVars, bc, scanVars>>

\* the client of an open websocket goes away: send_text on it raises from now on
Close(ws) ==
    /\ sockets[ws].state = "open"
    /\ sockets' = [sockets EXCEPT ![ws].state = "closed"]
    /\ UNCHANGED <<ledgerVars, now, orderVars, gateVars, readVars,
                   active_connections, bc, scanVars>>

\* broadcast(message) is called: the for loop starts at the head of the list
BroadcastStart ==
    /\ bc.pc = "idle"
    /\ bc.message < MaxBroadcasts
    /\ bc' = [pc |-> "loop", idx |-> 0, message |-> bc.message + 1]
    /\ UNCHANGED <<ledgerVars, now, orderVars, gateVars, readVars,
                   active_connections, sockets, scanVars>>

\* one turn of broadcast's loop: the list's iterator takes the element at its
\* index in the list as it is now, or ends the loop; send_text on a websocket
\* that is not open raises, and the bare except passes
BroadcastSend ==
    /\ bc.pc = "loop"
    /\ IF bc.idx < Len(active_connections)
       THEN LET connection == active_connections[bc.idx + 1]
            IN  /\ sent' = IF sockets[connection].state = "open"
                           THEN Append(sent, [ws |-> connection, type |-> "broadcast",
                                              message |-> bc.message])
                           ELSE sent
                /\ bc' = [bc EXCEPT !.idx = bc.idx + 1]
       ELSE /\ bc' = [bc EXCEPT !.pc = "idle"]
            /\ UNCHANGED sent
    /\ UNCHANGED <<ledgerVars, now, orders, history, tasks, sweep, resp,
                   redis_available, redis, user_connections, gateVars, readVars,
                   active_connections, sockets, scanVars>>

\* request_counts = defaultdict(list): no request seen
InitGate ==
    /\ request_counts = [ip \in ClientIps |-> <<>>]
    /\ current_time = 0
    /\ requests = <<>>

\* no read under way, none answered
InitReads ==
    /\ rd = [r \in Readers |-> NoRead]
    /\ got = [r \in Readers |-> <<>>]

\* manager = ConnectionManager(): nobody connected, no broadcast under way
InitChannels ==
    /\ active_connections = <<>>
    /\ sockets = [ws \in Websockets |-> [state |-> "new", user_id |-> "none"]]
    /\ bc = NoBroadcast

\* self.alerts = []: no scan under way, no alert
InitScan ==
    /\ scan = [pc |-> "idle", found |-> <<>>]
    /\ alerts = <<>>

Init == InitInventory /\ InitServer /\ InitGate /\ InitReads /\ InitChannels /\ InitScan

\* a record of db.orders in the middle of processing; customer "none" is a
\* record that lost its customer_id
stored_order(id, customer, status) ==
    [new_order(id, customer, <<[grain_id |-> "wheat", quantity |-> 1]>>, 0)
        EXCEPT !.status = status, !.payment_status = "paid",
               !.razorpay_payment_id = "pay_1"]

\* the server with MaxFound paid orders in grinding or packing
InitSweepFaults ==
    /\ InitInventory /\ InitGate /\ InitReads /\ InitChannels /\ InitScan
    /\ orders \in {[i \in 1..MaxFound |-> stored_order(i, c[i], st[i])] :
                    c \in [1..MaxFound -> Customers \cup {"none"}],
                    st \in [1..MaxFound -> {"grinding", "packing"}]}
    /\ history = <<>>
    /\ tasks = <<>>
    /\ sweep = [pc |-> "find", queue |-> <<>>]
    /\ resp = 0
    /\ redis_available \in BOOLEAN
    /\ redis = [k \in RedisKeys |-> <<>>]
    /\ user_connections = [u \in Customers |-> 0]
    /\ sent = <<>>

InitLedger == Init /\ redis_available

\* no other caller is inside a call
Alone(p) == \A o \in Workers \ {p} : wk[o].pc = "idle"

NextLedger ==
    \/ \E p \in Workers, g \in Grains, q \in Quantities : Alone(p) /\ ReserveFind(p, g, q)
    \/ \E p \in Workers : ReserveUpdate(p)
    \/ \E p \in Workers, g \in Grains, q \in Quantities : Alone(p) /\ ReleaseStock(p, g, q)
    \/ \E p \in Workers, g \in Grains, q \in Quantities : Alone(p) /\ ConsumeFind(p, g, q)
    \/ \E p \in Workers : ConsumeUpdate(p)
    \/ \E p \in Workers : ConsumeGrains(p)
    \/ \E p \in Workers, g \in Grains, q \in Quantities, s \in Suppliers :
          Alone(p) /\ AddInsert(p, g, q, s)
    \/ \E p \in Workers : AddFind(p)
    \/ \E p \in Workers : AddUpdate(p)

SpecLedger == InitLedger /\ [][NextLedger]_vars

(***************************************************************************)
(* Reservations and releases by concurrent callers, interleaved at every   *)
(* database call                                                           *)
(***************************************************************************)
NextRace ==
    \/ \E p \in Workers, g \in Grains, q \in Quantities : ReserveFind(p, g, q)
    \/ \E p \in Workers : ReserveUpdate(p)
    \/ \E p \in Workers, g \in Grains, q \in Quantities : ReleaseStock(p, g, q)

SpecRace == InitLedger /\ [][NextRace]_vars

\* N reserve calls and nothing else, interleaved at every database call
NextReserveRace ==
    \/ \E p \in Workers, g \in Grains, q \in Quantities : ReserveFind(p, g, q)
    \/ \E p \in Workers : ReserveUpdate(p)

SpecReserveRace == InitLedger /\ [][NextReserveRace]_vars

(***************************************************************************)
(* The server: requests, the tasks they create and the progressor          *)
(***************************************************************************)
Next ==
    \/ \E c \in Customers, items \in ItemLists, ok \in BOOLEAN : CreateOrder(c, items, ok)
    \/ \E rid \in 1..MaxOrders, ok \in BOOLEAN, pay \in PaymentIds :
          VerifyPayment(rid, ok, pay)
    \/ \E u \in Users, id \in 1..MaxOrders, st \in Statuses :
          UpdateOrderStatus(u, id, st)
    \/ \E k \in 1..Len(tasks) : TaskUpdate(k)
    \/ \E k \in 1..Len(tasks) : TaskFinish(k)
    \/ SweepFind
    \/ SweepUpdate
    \/ SweepFinish
    \/ Tick

Spec == Init /\ [][Next]_vars

(***************************************************************************)
(* Orders and their payment only: creation, payment confirmations (also    *)
(* repeated ones) and the tasks they create, all within one unit of the    *)
(* clock                                                                   *)
(***************************************************************************)
NextPayment ==
    \/ \E c \in Customers, items \in ItemLists, ok \in BOOLEAN : CreateOrder(c, items, ok)
    \/ \E rid \in 1..MaxOrders, ok \in BOOLEAN, pay \in PaymentIds :
          VerifyPayment(rid, ok, pay)
    \/ \E k \in 1..Len(tasks) : TaskUpdate(k)
    \/ \E k \in 1..Len(tasks) : TaskFinish(k)

SpecPayment == Init /\ [][NextPayment]_vars

(***************************************************************************)
(* Orders that no external actor touches once their payment is confirmed:  *)
(* creation, the first confirmation, its task, the sweeps and the clock    *)
(***************************************************************************)
NextProgress ==
    \/ \E c \in Customers, items \in ItemLists, ok \in BOOLEAN : CreateOrder(c, items, ok)
    \/ \E rid \in 1..MaxOrders, ok \in BOOLEAN, pay \in PaymentIds :
          /\ \A i \in 1..Len(orders) :
                orders[i].razorpay_order_id = rid => orders[i].payment_status = "pending"
          /\ VerifyPayment(rid, ok, pay)
    \/ \E k \in 1..Len(tasks) : TaskUpdate(k)
    \/ \E k \in 1..Len(tasks) : TaskFinish(k)
    \/ SweepFind
    \/ SweepUpdate
    \/ SweepFinish
    \/ Tick

SpecProgress == Init /\ [][NextProgress]_vars

\* the same under fair scheduling: a task that was created runs, the
\* progressor's loop keeps going, and time passes
SpecProgressFair ==
    /\ Init /\ [][NextProgress]_vars
    /\ WF_vars(\E k \in 1..Len(tasks) : TaskUpdate(k))
    /\ WF_vars(\E k \in 1..Len(tasks) : TaskFinish(k))
    /\ WF_vars(SweepFind)
    /\ WF_vars(SweepUpdate)
    /\ WF_vars(SweepFinish)
    /\ WF_vars(Tick)

\* the ledger's calls one at a time, and the scans of the monitoring loop
NextScan ==
    \/ NextLedger
    \/ ScanFind
    \/ ScanAlerts

SpecScan == InitLedger /\ [][NextScan]_vars

\* the registry alone: connections come and go while a broadcast runs; no
\* websocket is connected during a broadcast
NextRegistry ==
    \/ \E ws \in Websockets, u \in Customers : bc.pc = "idle" /\ Connect(ws, u)
    \/ \E ws \in Websockets : Disconnect(ws)
    \/ \E ws \in Websockets : Close(ws)
    \/ BroadcastStart
    \/ BroadcastSend

SpecRegistry == Init /\ [][NextRegistry]_vars

\* orders on their way with customers connecting and disconnecting
NextNotify ==
    \/ \E ws \in Websockets, u \in Customers : Connect(ws, u)
    \/ \E ws \in Websockets : Disconnect(ws)
    \/ NextProgress

SpecNotify == Init /\ [][NextNotify]_vars

\* the progressor alone, over orders in processing, with its failures
NextSweepFaults ==
    \/ SweepFind
    \/ SweepMalformed
    \/ SweepStorageError
    \/ SweepUpdate
    \/ SweepFinish
    \/ Tick

SpecSweepFaults == InitSweepFaults /\ [][NextSweepFaults]_vars

(***************************************************************************)
(* The rate limiter alone: requests of the clients, and the seconds        *)
(***************************************************************************)
NextGate ==
    \/ \E ip \in ClientIps : RateLimitMiddleware(ip)
    \/ Advance

SpecGate == Init /\ [][NextGate]_vars

(***************************************************************************)
(* The catalog and its cache: the ledger calls that write db.grains, one   *)
(* after the other, and the reads of GET /grains                           *)
(***************************************************************************)
NextCatalog ==
    \/ \E p \in Workers, g \in Grains, q \in Quantities : Alone(p) /\ ConsumeFind(p, g, q)
    \/ \E p \in Workers : ConsumeUpdate(p)
    \/ \E p \in Workers : ConsumeGrains(p)
    \/ \E p \in Workers, g \in Grains, q \in Quantities, s \in Suppliers :
          Alone(p) /\ AddInsert(p, g, q, s)
    \/ \E p \in Workers : AddFind(p)
    \/ \E p \in Workers : AddUpdate(p)
    \/ \E r \in Readers : GetGrainsFind(r)
    \/ \E r \in Readers : GetGrainsStore(r)
    \/ Tick

SpecCatalog == Init /\ [][NextCatalog]_vars

(***************************************************************************)
(* The orders and their cache: the handlers and tasks that write db.orders *)
(* and the reads of GET /orders/my-orders, all within one unit of the      *)
(* clock, so that no cached entry expires                                  *)
(***************************************************************************)
NextOrdersCache ==
    \/ \E c \in Customers, items \in ItemLists, ok \in BOOLEAN : CreateOrder(c, items, ok)
    \/ \E rid \in 1..MaxOrders, ok \in BOOLEAN, pay \in PaymentIds :
          VerifyPayment(rid, ok, pay)
    \/ \E u \in Users, id \in 1..MaxOrders, st \in Statuses : UpdateOrderStatus(u, id, st)
    \/ \E k \in 1..Len(tasks) : TaskUpdate(k)
    \/ \E k \in 1..Len(tasks) : TaskFinish(k)
    \/ \E r \in Readers, c \in Customers : GetMyOrdersFind(r, c)
    \/ \E r \in Readers, c \in Customers : GetMyOrdersStore(r, c)

SpecOrdersCache == Init /\ [][NextOrdersCache]_vars

(***************************************************************************)
(* Properties of the ledger                                                *)
(***************************************************************************)
Batches == 1..Len(inventory)

\* C1: in every reachable state every batch has available_stock +
\* reserved_stock = current_stock, available_stock >= 0 and
\* reserved_stock >= 0, whatever reserve, release, consume and replenish
\* calls were made.
C1_StockConservation ==
    \A i \in Batches :
        /\ inventory[i].available_stock + inventory[i].reserved_stock
              = inventory[i].current_stock
        /\ inventory[i].available_stock >= 0
        /\ inventory[i].reserved_stock >= 0

\* C2: with only reserve calls running, interleaved at every database call,
\* no batch is ever over-committed: reserved_stock (the quantities of the
\* calls that reported success) never exceeds current_stock and
\* available_stock never drops below 0.
C2_NoOverCommit ==
    \A i \in Batches :
        /\ inventory[i].reserved_stock <= inventory[i].current_stock
        /\ inventory[i].available_stock >= 0

\* C3: a reserve call that reads available_stock < q returns False and
\* changes no batch; one that reads available_stock >= q goes on to its
\* update, which returns True and moves exactly q from available_stock to
\* reserved_stock of that batch, leaving current_stock and every other batch
\* as they were.
C3_ReserveAllOrNothing ==
    [][\A p \in Workers :
        /\ \A g \in Grains, q \in Quantities :
              ReserveFind(p, g, q) =>
                 LET i == find_one(inventory, g)
                 IN  /\ inventory' = inventory
                     /\ IF i # 0 /\ inventory[i].available_stock >= q
                        THEN wk'[p].pc = "reserve_update" /\ ret'[p] = ret[p]
                        ELSE wk'[p].pc = "idle" /\ ret'[p] = "False"
        /\ (wk[p].pc = "reserve_update" /\ wk'[p].pc = "idle") =>
              LET i == find_one(inventory, wk[p].grain_id)
                  q == wk[p].quantity
              IN  /\ ret'[p] = "True"
                  /\ Len(inventory') = Len(inventory)
                  /\ inventory'[i].available_stock = inventory[i].available_stock - q
                  /\ inventory'[i].reserved_stock = inventory[i].reserved_stock + q
                  /\ inventory'[i].current_stock = inventory[i].current_stock
                  /\ \A j \in Batches \ {i} : inventory'[j] = inventory[j]
      ]_vars

\* a reserve call was refused and another one succeeded
C3_Witness ==
    /\ ret["w1"] = "False"
    /\ ret["w2"] = "True"
    /\ inventory[1].reserved_stock > 0

Clamped(inv) ==
    \A i \in 1..Len(inv) :
        /\ inv[i].reserved_stock >= 0
        /\ inv[i].available_stock <= inv[i].current_stock

\* C5: release is clamped: from a state where no batch has reserved_stock
\* below 0 or available_stock above current_stock, a release (also one of
\* more than is reserved) leads to such a state again.
C5_ReleaseClamped ==
    [][\A p \in Workers, g \in Grains, q \in Quantities :
          (ReleaseStock(p, g, q) /\ Clamped(inventory)) => Clamped(inventory')
      ]_vars

(***************************************************************************)
(* Properties of the order lifecycle                                       *)
(***************************************************************************)
LegalEdges ==
    {<<"pending", "confirmed">>, <<"confirmed", "grinding">>,
     <<"grinding", "packing">>, <<"packing", "out_for_delivery">>,
     <<"out_for_delivery", "delivered">>,
     <<"pending", "cancelled">>, <<"confirmed", "cancelled">>}

\* the quantity an order asks of grain g, over its line items
RECURSIVE Ordered(_, _, _)
Ordered(items, g, n) ==
    IF n = 0 THEN 0
    ELSE Ordered(items, g, n - 1)
           + (IF items[n].grain_id = g THEN items[n].quantity ELSE 0)

\* C6: no order is double-fulfilled: a payment confirmation for an order
\* that is already paid takes nothing from any batch, and a first one takes
\* from each batch at most what the order's line items ask, so that stock
\* is consumed for an order at most once however often, and however
\* interleaved, its payment is confirmed.
C6_NoDoubleFulfilment ==
    [][\A rid \in 1..MaxOrders, ok \in BOOLEAN, pay \in PaymentIds :
          VerifyPayment(rid, ok, pay) =>
             LET i == find_order_by_razorpay(orders, rid)
             IN  /\ Len(inventory') = Len(inventory)
                 /\ (i = 0 \/ orders[i].payment_status = "paid")
                       => inventory' = inventory
                 /\ (i # 0 /\ orders[i].payment_status # "paid") =>
                       \A b \in Batches :
                          /\ inventory'[b].current_stock >=
                               inventory[b].current_stock
                                 - Ordered(orders[i].items, inventory[b].grain_id,
                                           Len(orders[i].items))
                          /\ inventory'[b].current_stock <= inventory[b].current_stock
      ]_vars

\* the payment of an order was confirmed, its scheduled tick made it
\* grinding, and a second confirmation was accepted for it
C6_Witness ==
    /\ Len(orders) = 1
    /\ orders[1].payment_status = "paid"
    /\ orders[1].status = "confirmed"
    /\ Len(history) >= 1
    /\ history[1] = history_row(1, "grinding", "system")
    /\ Len(tasks) = 1

\* C7: every change of an order's status, by whichever handler or task,
\* follows one of the seven legal edges.
C7_OnlyLegalEdges ==
    [][\A i \in 1..Len(orders) :
          orders'[i].status # orders[i].status =>
             <<orders[i].status, orders'[i].status>> \in LegalEdges
      ]_vars

\* C8: update_order_status asked for an edge outside the legal set is
\* refused (no 200 answer) and leaves the order, status and updated_at, and
\* the history as they were.
C8_IllegalTransitionRefused ==
    [][\A u \in Users, id \in 1..MaxOrders, st \in Statuses :
          LET i == find_order(orders, id)
          IN  (/\ UpdateOrderStatus(u, id, st)
               /\ Role(u) \in StaffRoles
               /\ i # 0
               /\ <<orders[i].status, st>> \notin LegalEdges)
              => (orders' = orders /\ history' = history /\ resp' # 200)
      ]_vars

\* a line item asks more than the first batch of its grain has available
ReservationFails(items) ==
    \E n \in 1..Len(items) :
        LET b == find_one(inventory, items[n].grain_id)
        IN  b = 0 \/ inventory[b].available_stock < items[n].quantity

\* C9: order creation is all-or-nothing over stock: when a line item asks
\* more than is available, creation is refused, no order is persisted and
\* every batch is as before.
C9_CreateAllOrNothing ==
    [][\A c \in Customers, items \in ItemLists, ok \in BOOLEAN :
          (CreateOrder(c, items, ok) /\ ReservationFails(items))
             => (orders' = orders /\ inventory' = inventory /\ resp' # 200)
      ]_vars

\* C10: creating an order of one line item of quantity q for a grain whose
\* batch has available_stock a >= q leaves available_stock = a - q and
\* reserved_stock raised by q; confirming its payment then lowers
\* current_stock and reserved_stock by q and leaves available_stock alone.
C10_CreateReservesConfirmConsumes ==
    [][/\ \A c \in Customers, items \in ItemLists :
            (CreateOrder(c, items, TRUE) /\ Len(items) = 1 /\ ~ReservationFails(items)) =>
               LET b == find_one(inventory, items[1].grain_id)
                   q == items[1].quantity
               IN  /\ inventory'[b].available_stock = inventory[b].available_stock - q
                   /\ inventory'[b].reserved_stock = inventory[b].reserved_stock + q
       /\ \A rid \in 1..MaxOrders, pay \in PaymentIds :
            LET i == find_order_by_razorpay(orders, rid)
            IN  (/\ VerifyPayment(rid, TRUE, pay)
                 /\ i # 0
                 /\ orders[i].status = "pending"
                 /\ Len(orders[i].items) = 1) =>
                   LET b == find_one(inventory, orders[i].items[1].grain_id)
                       q == orders[i].items[1].quantity
                   IN  /\ inventory'[b].current_stock = inventory[b].current_stock - q
                       /\ inventory'[b].reserved_stock = inventory[b].reserved_stock - q
                       /\ inventory'[b].available_stock = inventory[b].available_stock
      ]_vars

\* C11: cancelling (update_order_status with status cancelled) succeeds only
\* while the order is pending or confirmed, and then sets it cancelled;
\* attempted on an order that is grinding or later it is refused and changes
\* neither the order nor any batch.
C11_CancelOnlyBeforeGrinding ==
    [][\A u \in Users, id \in 1..MaxOrders :
          LET i == find_order(orders, id)
          IN  (/\ UpdateOrderStatus(u, id, "cancelled")
               /\ Role(u) \in StaffRoles
               /\ i # 0)
              => IF orders[i].status \in {"pending", "confirmed"}
                 THEN orders'[i].status = "cancelled"
                 ELSE orders' = orders /\ inventory' = inventory /\ resp' # 200
      ]_vars

\* C12: once an order is delivered or cancelled, no step of any handler,
\* task or sweep changes any of its fields.
C12_TerminalOrdersImmutable ==
    [][\A i \in 1..Len(orders) :
          orders[i].status \in {"delivered", "cancelled"} => orders'[i] = orders[i]
      ]_vars

\* C13: a status update of the scheduled tick or of a sweep whose expected
\* source status (confirmed for the tick, the status the sweep's find read)
\* is no longer the order's status writes nothing to the order.
C13_StaleTransitionFailsClosed ==
    [][/\ \A k \in 1..Len(tasks) :
            LET i == find_order(orders, tasks[k].order_id)
            IN  (TaskUpdate(k) /\ i # 0 /\ orders[i].status # "confirmed")
                   => orders' = orders
       /\ (sweep.pc = "update" /\ SweepUpdate) =>
            LET i == find_order(orders, Head(sweep.queue).id)
            IN  (i # 0 /\ orders[i].status # Head(sweep.queue).status)
                   => orders' = orders
      ]_vars

\* C14: a sweep's update changes only an order that is grinding or packing,
\* moves it one step (grinding to packing, packing to out_for_delivery) and
\* never sets delivered.
C14_SweepOneStepProcessingOnly ==
    [][(sweep.pc = "update" /\ SweepUpdate) =>
         \A i \in 1..Len(orders) :
            orders'[i] # orders[i] =>
               /\ orders[i].status \in {"grinding", "packing"}
               /\ orders'[i].status = auto_new_status(orders[i].status)
               /\ orders'[i].status # "delivered"
      ]_vars

\* the rows of db.order_status_history of an order
rows_of(h, id) == SelectSeq(h, LAMBDA row : row.order_id = id)

\* no status update is under way
Quiescent == tasks = <<>> /\ sweep.pc = "find"

\* C15: of an order whose payment was confirmed and that only the system has
\* advanced since, the history holds exactly two rows, all with actor system,
\* exactly when the order is out_for_delivery: two advances by the system
\* take a confirmed order to out_for_delivery.
C15_TwoSystemRowsToOutForDelivery ==
    Quiescent =>
       \A i \in 1..Len(orders) :
          LET rows == rows_of(history, orders[i].id)
          IN  (/\ orders[i].payment_status = "paid"
               /\ \A n \in 1..Len(rows) : rows[n].updated_by = "system")
              => (orders[i].status = "out_for_delivery" <=> Len(rows) = 2)

(***************************************************************************)
(* Properties of the rate limiter                                          *)
(***************************************************************************)
\* the requests of ip passed on to call_next whose time lies in (t - window, t]
Admitted(reqs, ip, t) ==
    {n \in 1..Len(reqs) : /\ reqs[n].client_ip = ip
                          /\ reqs[n].call_next
                          /\ reqs[n].time > t - RATE_LIMIT_WINDOW
                          /\ reqs[n].time <= t}

\* the last request the middleware saw
LastRequest(reqs) == reqs[Len(reqs)]

\* C16: for every client and at every time, the requests of the client
\* admitted within the window are at most RATE_LIMIT_REQUESTS; a request
\* arriving when that many lie within the window is answered 429 and not
\* passed on.
C16_WindowNeverExceeded ==
    [][/\ \A ip \in ClientIps :
            Cardinality(Admitted(requests', ip, current_time')) <= RATE_LIMIT_REQUESTS
       /\ \A ip \in ClientIps :
            (/\ RateLimitMiddleware(ip)
             /\ Cardinality(Admitted(requests, ip, current_time)) >= RATE_LIMIT_REQUESTS)
            => ~LastRequest(requests').call_next
      ]_vars

\* a client has RATE_LIMIT_REQUESTS admitted requests within the window and
\* its next request was answered 429
C16_Witness ==
    /\ requests # <<>>
    /\ ~LastRequest(requests).call_next
    /\ Cardinality(Admitted(requests, LastRequest(requests).client_ip, current_time))
          = RATE_LIMIT_REQUESTS

\* C17: a request is admitted whenever fewer than RATE_LIMIT_REQUESTS requests
\* of its client were admitted within the preceding window, whatever
\* requests were rejected meanwhile.
C17_AdmittedUnderTheLimit ==
    [][\A ip \in ClientIps :
          (/\ RateLimitMiddleware(ip)
           /\ Cardinality(Admitted(requests, ip, current_time)) < RATE_LIMIT_REQUESTS)
          => LastRequest(requests').call_next
      ]_vars

\* a client was rejected and, the window elapsed, admitted again
C17_Witness ==
    \E b, c \in 1..Len(requests) :
        /\ b < c
        /\ requests[b].client_ip = requests[c].client_ip
        /\ ~requests[b].call_next
        /\ requests[c].call_next
        /\ Cardinality({a \in 1..(b - 1) :
                          /\ requests[a].client_ip = requests[b].client_ip
                          /\ requests[a].call_next
                          /\ requests[a].time + RATE_LIMIT_WINDOW <= requests[c].time})
              = RATE_LIMIT_REQUESTS

\* C18: a request answered 429 records no time for its client (the list only
\* loses the times that left the window), is not passed on to call_next, and
\* leaves orders, stock, cache and notifications as they were.
C18_RejectionHasNoSideEffects ==
    [][\A ip \in ClientIps :
          (RateLimitMiddleware(ip) /\ ~LastRequest(requests').call_next)
          => /\ Len(request_counts'[ip]) <= Len(request_counts[ip])
             /\ \A n \in 1..Len(request_counts'[ip]) :
                   \E m \in 1..Len(request_counts[ip]) :
                       /\ request_counts[ip][m] = request_counts'[ip][n]
                       /\ m >= n
             /\ \A other \in ClientIps \ {ip} :
                   request_counts'[other] = request_counts[other]
             /\ UNCHANGED <<inventory, grains, orders, history, tasks, sweep,
                            redis, user_connections, sent>>
      ]_vars

\* a request was answered 429 while its client's list was full
C18_Witness ==
    /\ requests # <<>>
    /\ ~LastRequest(requests).call_next
    /\ Len(request_counts[LastRequest(requests).client_ip]) = RATE_LIMIT_REQUESTS
    /\ LastRequest(requests).time = current_time

(***************************************************************************)
(* Properties of the caches                                                *)
(***************************************************************************)
\* what a cached read that starts now answers without asking the database:
\* <<body>>, or <<>> if it has to ask
AnswerFromCache(key) ==
    IF redis_available THEN redis_get(redis, key, now) ELSE <<>>

\* C19: when no ledger call that writes the catalog stock is under way, a
\* read of GET /grains that starts and is answered from the cache gets the
\* catalog as it is in the database, whether or not the TTL of the entry has
\* elapsed.
C19_CatalogReadReflectsMutation ==
    (\A p \in Workers : wk[p].pc = "idle") =>
       (AnswerFromCache(grains_key) # <<>> =>
          AnswerFromCache(grains_key)[1] = json_dumps_default_str(grains_view(grains)))

\* C20: when every mutation of a customer's orders has finished, a read of
\* GET /orders/my-orders that starts gets the customer's orders as they are
\* in the database, also when an earlier read of the key ran while the
\* mutation did.
C20_OrdersReadReflectsMutation ==
    Quiescent =>
       \A c \in Customers :
          AnswerFromCache(orders_key(c)) # <<>> =>
             AnswerFromCache(orders_key(c))[1]
                = json_dumps_default_str(orders_view(orders, c))

(***************************************************************************)
(* Properties of the history, of failures, of consumption and of payment   *)
(***************************************************************************)
\* the step changed the status of some order
StatusChanged ==
    \E i \in 1..Len(orders) : orders'[i].status # orders[i].status

\* the step appended one row, naming an order whose status it changed and
\* the status the order has now
AppendedRowOfChange ==
    /\ Len(history') = Len(history) + 1
    /\ \E i \in 1..Len(orders) :
          /\ orders'[i].status # orders[i].status
          /\ history'[Len(history')].order_id = orders[i].id
          /\ history'[Len(history')].status = orders'[i].status

\* C21: the history is append-only and complete: no step changes or removes
\* a row, and a request that changes the status of an order (payment
\* confirmation, manual update) appends exactly one row carrying the new
\* status, and appends none when it changed no order.
C21_HistoryAppendOnlyAndComplete ==
    [][/\ Len(history') >= Len(history)
       /\ \A n \in 1..Len(history) : history'[n] = history[n]
       /\ ((\E rid \in 1..MaxOrders, ok \in BOOLEAN, pay \in PaymentIds :
               VerifyPayment(rid, ok, pay))
            \/ (\E u \in Users, id \in 1..MaxOrders, st \in Statuses :
                  UpdateOrderStatus(u, id, st)))
           => IF StatusChanged THEN AppendedRowOfChange ELSE history' = history
      ]_vars

\* C22: whenever create_order or verify_payment has persisted its write to
\* db.orders, it answers 200, whether or not the cache is available.
C22_CacheFailureNotFatal ==
    [][/\ \A c \in Customers, items \in ItemLists, ok \in BOOLEAN :
            (CreateOrder(c, items, ok) /\ orders' # orders) => resp' = 200
       /\ \A rid \in 1..MaxOrders, ok \in BOOLEAN, pay \in PaymentIds :
            (VerifyPayment(rid, ok, pay) /\ orders' # orders) => resp' = 200
      ]_vars

\* C23: consume_stock leaves current_stock and reserved_stock of a batch that
\* held no negative figure at zero or above, also when the quantity exceeds
\* current_stock, and leaves available_stock as it was.
C23_ConsumeClampedAtZero ==
    [][\A p \in Workers :
          ConsumeUpdate(p) =>
             \A b \in 1..Len(inventory) :
                (inventory[b].current_stock >= 0 /\ inventory[b].reserved_stock >= 0)
                => /\ inventory'[b].current_stock >= 0
                   /\ inventory'[b].reserved_stock >= 0
                   /\ inventory'[b].available_stock = inventory[b].available_stock
      ]_vars

\* the sum of current_stock over the first n batches that hold grain g
RECURSIVE TotalCurrentStock(_, _, _)
TotalCurrentStock(inv, g, n) ==
    IF n = 0 THEN 0
    ELSE TotalCurrentStock(inv, g, n - 1)
           + (IF inv[n].grain_id = g THEN inv[n].current_stock ELSE 0)

\* C24: when no ledger call is under way (and no batch was consumed below
\* zero), the catalog's stock_kg of a grain is the sum of current_stock over
\* the batches of the grain.
C24_CatalogStockIsAggregate ==
    (/\ \A p \in Workers : wk[p].pc = "idle"
     /\ \A b \in 1..Len(inventory) : inventory[b].current_stock >= 0) =>
       \A g \in Grains : grains[g] = TotalCurrentStock(inventory, g, Len(inventory))

\* C25: a payment confirmation for an order that is not pending leaves the
\* order's status and updated_at as they were and schedules no task.
C25_ConfirmOnlyFromPending ==
    [][\A rid \in 1..MaxOrders, ok \in BOOLEAN, pay \in PaymentIds :
          LET i == find_order_by_razorpay(orders, rid)
          IN  (VerifyPayment(rid, ok, pay) /\ i # 0 /\ orders[i].status # "pending")
              => /\ orders'[i].status = orders[i].status
                 /\ orders'[i].updated_at = orders[i].updated_at
                 /\ tasks' = tasks
      ]_vars

\* C26: a create_order that persists an order persists it pending, with
\* payment_status pending, and appends one history row for it.
C26_CreationAppendsEvent ==
    [][\A c \in Customers, items \in ItemLists, ok \in BOOLEAN :
          (CreateOrder(c, items, ok) /\ orders' # orders)
          => /\ orders'[Len(orders')].status = "pending"
             /\ orders'[Len(orders')].payment_status = "pending"
             /\ Len(history') = Len(history) + 1
             /\ history'[Len(history')].order_id = orders'[Len(orders')].id
      ]_vars

\* C30: an order that is confirmed, grinding, packing, out_for_delivery or
\* delivered has payment_status paid.
C30_ProcessingOrdersArePaid ==
    \A i \in 1..Len(orders) :
       orders[i].status \in {"confirmed", "grinding", "packing", "out_for_delivery",
                             "delivered"}
       => orders[i].payment_status = "paid"

C28_FailureDoesNotStopTheSweep ==
    [][(sweep.pc \in {"update", "finish"} /\ sweep'.pc = "find")
          => \A j \in 2..Len(sweep.queue) : ~Order_validates(sweep.queue[j])
      ]_vars

\* C29: under fair scheduling and with no manual transition, an order whose
\* payment was confirmed does not stay confirmed: it goes on to grinding and
\* beyond, the first stretch of its way to out_for_delivery.
C29_PaidOrderIsProcessed ==
    \A i \in 1..MaxOrders :
       (i <= Len(orders) /\ orders[i].payment_status = "paid"
                         /\ orders[i].status = "confirmed")
       ~> (i <= Len(orders)
           /\ orders[i].status \in {"grinding", "packing", "out_for_delivery"})

(***************************************************************************)
(* Properties of the limiter's keys, the cached reads, the websocket       *)
(* registry, the stock scan, replenishment and the payment signature       *)
(***************************************************************************)
\* the requests of one client, in order
requests_of(reqs, ip) == SelectSeq(reqs, LAMBDA q : q.client_ip = ip)

\* the answers a limiter gives to requests at these times when it sees no
\* other client: TRUE for passed on, FALSE for 429
RECURSIVE alone_decisions(_, _)
alone_decisions(times, counts) ==
    IF times = <<>> THEN <<>>
    ELSE LET cleaned == clean(counts, Head(times))
         IN  <<~rate_limited(cleaned)>>
             \o alone_decisions(Tail(times), counts_after(cleaned, Head(times)))

\* C31: the answers to the requests of a client are those the limiter gives
\* to the same requests at the same times with no other client present: they
\* are a function of the client's own requests.
C31_ClientsAreIndependent ==
    \A ip \in ClientIps :
       LET own == requests_of(requests, ip)
       IN  [j \in 1..Len(own) |-> own[j].call_next]
             = alone_decisions([j \in 1..Len(own) |-> own[j].time], <<>>)

\* a client was answered 429 after another client's request came between
\* its own
C31_Witness ==
    \E a, b, c \in 1..Len(requests) :
        /\ a < b /\ b < c
        /\ requests[a].client_ip = requests[c].client_ip
        /\ requests[b].client_ip # requests[c].client_ip
        /\ requests[b].call_next
        /\ ~requests[c].call_next

\* C32: the answer of a cached read that missed is the data it stored: a
\* read that follows with no mutation in between is served the stored entry
\* and gets the same body.
C32_ConsecutiveReadsIdentical ==
    [][\A r \in Readers :
          (rd[r].pc = "store" /\ rd'[r].pc = "idle" /\ redis_available)
          => /\ redis_get(redis', rd[r].key, now) # <<>>
             /\ got'[r] = jsonable_encoder(json_loads(redis_get(redis', rd[r].key, now)[1]))
      ]_vars

\* the handler, task or sweep step that emits a notification to customer c
EmitsTo(c) ==
    \/ \E items \in ItemLists : CreateOrder(c, items, TRUE) /\ redis_available
    \/ \E rid \in 1..MaxOrders, pay \in PaymentIds :
          LET i == find_order_by_razorpay(orders, rid)
          IN  /\ VerifyPayment(rid, TRUE, pay) /\ redis_available
              /\ i # 0 /\ orders[i].customer_id = c
    \/ \E k \in 1..Len(tasks) :
          LET i == find_order(orders, tasks[k].order_id)
          IN  TaskFinish(k) /\ i # 0 /\ orders[i].customer_id = c
    \/ LET i == IF sweep.queue = <<>> THEN 0
                ELSE find_order(orders, Head(sweep.queue).id)
       IN  SweepFinish /\ i # 0 /\ orders[i].customer_id = c

\* C33: a notification emitted to a customer with no registered websocket is
\* dropped: nothing is sent, the step that emitted it goes on without an
\* error, the registry stays as it was, and a later connect delivers nothing.
C33_UnregisteredEventDropped ==
    [][/\ \A c \in Customers :
             (EmitsTo(c) /\ user_connections[c] = 0)
             => /\ sent' = sent
                /\ user_connections' = user_connections
                /\ active_connections' = active_connections
                /\ resp' \in {resp, 200}
                /\ (\E items \in ItemLists : CreateOrder(c, items, TRUE)) => resp' = 200
                /\ (\E rid \in 1..MaxOrders, pay \in PaymentIds :
                       VerifyPayment(rid, TRUE, pay))
                   => (resp' = 200 /\ Len(tasks') = Len(tasks) + 1)
       /\ \A ws \in Websockets, u \in Customers : Connect(ws, u) => sent' = sent
      ]_vars

\* an order was created for a customer with no websocket, the answer was
\* 200, and the customer, connected since, has been sent nothing
C33_Witness ==
    /\ Len(orders) = 1
    /\ orders[1].status = "pending"
    /\ redis_available
    /\ resp = 200
    /\ sent = <<>>
    /\ user_connections[orders[1].customer_id] # 0

\* the websockets of the registry: those broadcast sends to, and those
\* registered for a user
broadcast_channels == {active_connections[n] : n \in 1..Len(active_connections)}
user_channels == {user_connections[u] : u \in Customers} \ {0}

\* C34: the registry holds one websocket per connected customer: the
\* websockets broadcast sends to are those registered for a user, and a
\* customer whose latest websocket was not disconnected is registered.
C34_OneChannelPerCustomer ==
    /\ broadcast_channels = user_channels
    /\ \A u \in Customers :
          LET S == {n \in 1..Len(active_connections) :
                       sockets[active_connections[n]].user_id = u}
          IN  S # {} => \E n \in S : /\ \A m \in S : m <= n
                                     /\ user_connections[u] = active_connections[n]

\* C35: when a broadcast ends, every websocket that is registered and open
\* (registered since before the broadcast began) has been sent its message.
C35_BroadcastReachesEveryChannel ==
    [][(bc.pc = "loop" /\ bc'.pc = "idle")
          => \A ws \in broadcast_channels :
                sockets[ws].state = "open"
                => \E n \in 1..Len(sent) :
                      /\ sent[n].ws = ws
                      /\ sent[n].type = "broadcast"
                      /\ sent[n].message = bc.message
      ]_vars

\* the notifications about the status of orders, in the order of sending
order_updates == SelectSeq(sent, LAMBDA e : e.type = "order_update")

\* C36: the notifications about an order's status arrive in the order in
\* which the statuses were applied: when no update is under way, the last
\* such notification sent names the status the order has.
C36_NotificationsInOrderOfChanges ==
    (Quiescent /\ Len(orders) = 1 /\ order_updates # <<>>)
    => order_updates[Len(order_updates)].message
          = orders[1].status

\* C37: a scan finds the batches whose available_stock is at or below their
\* minimum_threshold and no other, and alerts out_of_stock for a found batch
\* with nothing available and low_stock for the others.
C37_ScanAlertsLowAndEmptyBatches ==
    [][/\ (scan.pc = "idle" /\ scan'.pc = "alerts")
          => \A n \in 1..Len(inventory) :
                (inventory[n].available_stock <= inventory[n].minimum_threshold)
                <=> (\E m \in 1..Len(scan'.found) :
                        scan'.found[m].batch_id = inventory[n].batch_id)
       /\ (scan.pc = "alerts" /\ scan.found # <<>> /\ scan' # scan)
          => /\ Len(alerts') = Len(alerts) + 1
             /\ alerts'[Len(alerts')].batch_id = Head(scan.found).batch_id
             /\ alerts'[Len(alerts')].type
                   = IF Head(scan.found).available_stock <= 0
                     THEN "out_of_stock" ELSE "low_stock"
      ]_vars

\* C38: add_stock appends a batch with current_stock = available_stock = q,
\* reserved_stock = 0, optimal_stock = 2 * q and minimum_threshold = 10, with
\* a batch_id no other batch has, and leaves the batches there were as they
\* were, also for a second add_stock of the grain in the same second.
C38_ReplenishCreatesBatch ==
    [][\A p \in Workers, g \in Grains, q \in Quantities, sup \in Suppliers :
          AddInsert(p, g, q, sup)
          => /\ Len(inventory') = Len(inventory) + 1
             /\ \A n \in 1..Len(inventory) : inventory'[n] = inventory[n]
             /\ LET item == inventory'[Len(inventory')]
                IN  /\ item.current_stock = q /\ item.available_stock = q
                    /\ item.reserved_stock = 0
                    /\ item.optimal_stock = 2 * q
                    /\ item.minimum_threshold = 10
                    /\ \A n \in 1..Len(inventory) : inventory[n].batch_id # item.batch_id
      ]_vars

\* C39: a verify_payment whose signature does not match is answered 400 and
\* leaves the orders, the history and the notifications as they were.
C39_BadSignatureIs400 ==
    [][\A rid \in 1..MaxOrders, pay \in PaymentIds :
          VerifyPayment(rid, FALSE, pay)
          => /\ resp' = 400
             /\ UNCHANGED <<orders, history, sent, tasks>>
      ]_vars

====
